---- MODULE Spec2Model ----
(***************************************************************************)
(* Model of automation.py: the discovery path (find_websites with its      *)
(* three search backends and the backoff loop of duckduckgo_search) and    *)
(* the batch path (__main__ -> main -> get_np_info -> create_database ->   *)
(* save_db).  Text is modelled as a sequence of tokens, a Python dict as   *)
(* a sequence of <<key, value>> pairs in insertion order.                  *)
(***************************************************************************)
EXTENDS Integers, Sequences, FiniteSets, TLC

VARIABLES
    entry,      \* which entry point runs: "find_websites" or "main"
    pc,         \* position of the single thread of control
    err,        \* the exception that ended the run, "none" while there is none
    out,        \* everything printed so far, in order
    args,       \* the call's arguments (find_websites) / argparse Namespace (__main__)
    NPs_names,  \* find_websites / main: the list of organization names
    n,          \* loop index of find_websites (l.160) and of get_np_info (l.194)
    NPs_links,  \* find_websites: dict name -> resolved value
    ret,        \* find_websites: the returned value
    attempt,    \* duckduckgo_search: loop variable of l.98
    sleeps,     \* duckduckgo_search: the delays slept in the current call, in order
    tries,      \* duckduckgo_search: outcome of each attempt of the current call
    answers,    \* find_websites: per finished iteration, what the backend answered
    pkl,        \* content of the pickle file links.pkl in the database directory
    opened,     \* the file name load_dict opened
    links,      \* main: the source links handed to get_np_info
    NPs_dict,   \* get_np_info: dict name -> ExtractionResult
    runs,       \* get_np_info: per iteration, what the extractor printed on stdout
    db,         \* create_database: the table, [columns, rows]
    csv         \* save_db: the written file, [file, header, rows]

vars == <<entry, pc, err, out, args, NPs_names, n, NPs_links, ret, attempt,
          sleeps, tries, answers, pkl, opened, links, NPs_dict, runs, db, csv>>

findVars == <<NPs_links, ret, attempt, sleeps, tries, answers>>
mainVars == <<pkl, opened, links, NPs_dict, runs, db, csv>>

-----------------------------------------------------------------------------
(* Bounds of the model *)

MaxNames == 2   \* longest list of names the discovery extraction returns
MaxOrgs == 2   \* most entries of the link cache, and largest -n / -l

-----------------------------------------------------------------------------
(* Python values *)

None == [kind |-> "None"]

\* dict helpers: a dict is a sequence of <<key, value>> pairs, keys distinct
Keys(d) == [i \in 1..Len(d) |-> d[i][1]]

Has(d, k) == \E i \in 1..Len(d) : d[i][1] = k

Get(d, k) == d[CHOOSE i \in 1..Len(d) : d[i][1] = k][2]

\* d[k] = v: an existing key keeps its position, a new key goes last
Put(d, k, v) ==
    IF Has(d, k)
    THEN [i \in 1..Len(d) |-> IF d[i][1] = k THEN <<k, v>> ELSE d[i]]
    ELSE Append(d, <<k, v>>)

Range(s) == {s[i] : i \in 1..Len(s)}

\* all sequences over S of length at most m
SeqsUpTo(S, m) == UNION {[1..k -> S] : k \in 0..m}

RECURSIVE Pow2(_)
Pow2(k) == IF k = 0 THEN 1 ELSE 2 * Pow2(k - 1)

-----------------------------------------------------------------------------
(* duckduckgo_search, l.84-110 *)

max_retries == 10

initial_delay == 5

\* l.105 with the exponent one too high (the first delay doubled)
BackoffDelayDoubled(a) == initial_delay * Pow2(a + 1)

\* l.105: delay = initial_delay * (2 ** attempt)
BackoffDelay(a) == initial_delay * Pow2(a)

\* l.104 without the "- 1": the last attempt sleeps too
ShouldRetryOffByOne(msg, a) == msg = "Ratelimit" /\ a < max_retries

\* l.104: "Ratelimit" in str(e) and attempt < max_retries - 1
ShouldRetry(msg, a) == msg = "Ratelimit" /\ a < max_retries - 1

\* what DDGS().text may give back for max_results=1
Urls == {"u1", "u2"}

DdgMessages == {"Ratelimit", "Timeout"}

NoError == [type |-> "none", msg |-> ""]

Exception(t, m) == [type |-> t, msg |-> m]

\* the statements between the try of l.99 and the end of the function, for an
\* attempt that raised DuckDuckGoSearchException(msg): <<printed, slept, attempt', error>>
\* with error = NoError when the loop goes on to the next attempt
OnSearchException(msg, a) ==
    IF ShouldRetry(msg, a)
    THEN LET delay == BackoffDelay(a) IN
         <<  <<[msg |-> "Rate limit hit", delay |-> delay]>>,
             <<delay>>,
             a + 1,
             IF a + 1 < max_retries
             THEN NoError
             ELSE Exception("DuckDuckGoSearchException", "Max retries reached")  >>
    ELSE << <<>>, <<>>, a, Exception("DuckDuckGoSearchException", msg) >>

-----------------------------------------------------------------------------
(* google_search l.43-65, get_links l.67-82 *)

\* an HTTP response body (response.json()): a dict with or without 'items'
GoogleBodies ==
    { <<>> } \cup { << <<"items", items>> >> : items \in SeqsUpTo([link : Urls], 1) }

\* l.64-65: the parsed body of the response
google_search(body) == body

\* l.81-82: results.get('items', [])[0]['link']; None stands for the IndexError
get_links(body) ==
    LET results == google_search(body)
        items   == IF Has(results, "items") THEN Get(results, "items") ELSE <<>>
    IN  IF Len(items) = 0 THEN None ELSE [kind |-> "str", str |-> items[1].link]

-----------------------------------------------------------------------------
(* the extraction subprocess seen from its caller: captured stdout, stderr *)

Empty(stderr) == [kind |-> "empty", stderr |-> stderr]

Text == [kind |-> "text", stderr |-> ""]      \* non-empty stdout that is not JSON

\* stdout holding a JSON object, parsed by json.loads to the dict v
Json(v) == [kind |-> "json", isdict |-> TRUE, value |-> v, stderr |-> ""]

\* stdout holding JSON that is no object (a list)
JsonList == [kind |-> "json", isdict |-> FALSE, value |-> <<>>, stderr |-> ""]

\* the check of l.201 left out: every stdout goes on to json.loads
AlwaysTruthy(r) == TRUE

\* result.stdout is truthy (l.153, l.201)
StdoutTruthy(r) == r.kind # "empty"

DiscoveredNames == {"A", "B"}

\* stdout of the discovery extraction (l.147-149)
DiscoveryStdout ==
    {Empty("scraper failed"), Text, Json(<<>>)}
    \cup { Json(<< <<"associations", names>> >>) : names \in SeqsUpTo(DiscoveredNames, MaxNames) }

\* stdout of the "find the link of ..." extraction (l.125-127)
LinkStdout ==
    {Empty("scraper failed"), Text, Json(<< <<"name", "X">> >>)}
    \cup { Json(<< <<"link", u>> >>) : u \in Urls }

SearchEngines == {"google", "ddg", "gemini", "bing"}

-----------------------------------------------------------------------------
(* find_websites, l.133-173 *)

Raise(e) == pc' = "raised" /\ err' = e

np == NPs_names[n + 1]

Progress == [msg |-> "progress", index |-> n + 1, total |-> Len(NPs_names), name |-> np]

InitFind ==
    /\ entry = "find_websites"
    /\ pc = "discover"
    /\ err = NoError
    /\ out = <<>>
    /\ args \in [source_link : {<<"http://src">>}, search_engine : SearchEngines,
                 verbose : BOOLEAN]
    /\ NPs_names = <<>>
    /\ n = 0
    /\ NPs_links = <<>>
    /\ ret = None
    /\ attempt = 0
    /\ sleeps = <<>>
    /\ tries = <<>>
    /\ answers = <<>>
    /\ pkl = <<>>
    /\ opened = None
    /\ links = <<>>
    /\ NPs_dict = <<>>
    /\ runs = <<>>
    /\ db = None
    /\ csv = None

\* l.145-157: the discovery extraction and the parse of its stdout
Discover ==
    /\ entry = "find_websites" /\ pc = "discover"
    /\ \E result \in DiscoveryStdout :
        /\ out' = IF args.verbose THEN Append(out, [msg |-> "names done"]) ELSE out
        /\ IF StdoutTruthy(result)
           THEN IF result.kind # "json"
                THEN Raise(Exception("JSONDecodeError", "")) /\ UNCHANGED <<NPs_names, ret>>
                ELSE IF Len(result.value) = 0
                THEN Raise(Exception("IndexError", "")) /\ UNCHANGED <<NPs_names, ret>>
                ELSE /\ NPs_names' = result.value[1][2]
                     /\ pc' = "resolve"
                     /\ UNCHANGED <<err, ret>>
           ELSE /\ ret' = [kind |-> "str", str |-> result.stderr]
                /\ pc' = "returned"
                /\ UNCHANGED <<err, NPs_names>>
    /\ UNCHANGED <<entry, args, n, NPs_links, attempt, sleeps, tries, answers>>
    /\ UNCHANGED mainVars

\* l.160-164: one iteration with search_engine == 'google'
ResolveGoogle ==
    /\ entry = "find_websites" /\ pc = "resolve" /\ n < Len(NPs_names)
    /\ args.search_engine = "google"
    /\ out' = Append(out, Progress)
    /\ \/ \E body \in GoogleBodies :
            /\ NPs_links' = Put(NPs_links, np, [kind |-> "dict", dict |-> google_search(body)])
            /\ answers' = Append(answers, body)
            /\ n' = n + 1
            /\ UNCHANGED <<pc, err>>
       \/ /\ Raise(Exception("ConnectionError", ""))
          /\ UNCHANGED <<NPs_links, answers, n>>
    /\ UNCHANGED <<entry, args, NPs_names, ret, attempt, sleeps, tries>>
    /\ UNCHANGED mainVars

\* l.160-162, l.167-168 with scrap_link l.112-131
ResolveGemini ==
    /\ entry = "find_websites" /\ pc = "resolve" /\ n < Len(NPs_names)
    /\ args.search_engine = "gemini"
    /\ out' = Append(out, Progress)
    /\ \E result \in LinkStdout :
        IF result.kind # "json"
        THEN Raise(Exception("JSONDecodeError", "")) /\ UNCHANGED <<NPs_links, answers, n>>
        ELSE IF ~Has(result.value, "link")
        THEN Raise(Exception("KeyError", "link")) /\ UNCHANGED <<NPs_links, answers, n>>
        ELSE /\ NPs_links' = Put(NPs_links, np, [kind |-> "str", str |-> Get(result.value, "link")])
             /\ answers' = Append(answers, result.value)
             /\ n' = n + 1
             /\ UNCHANGED <<pc, err>>
    /\ UNCHANGED <<entry, args, NPs_names, ret, attempt, sleeps, tries>>
    /\ UNCHANGED mainVars

\* l.160-162 with a search_engine that matches no branch of l.163-168
ResolveNothing ==
    /\ entry = "find_websites" /\ pc = "resolve" /\ n < Len(NPs_names)
    /\ args.search_engine \notin {"google", "ddg", "gemini"}
    /\ out' = Append(out, Progress)
    /\ n' = n + 1
    /\ UNCHANGED <<entry, pc, err, args, NPs_names, NPs_links, ret, attempt, sleeps,
                   tries, answers>>
    /\ UNCHANGED mainVars

\* l.160-162, l.165-166: the call of duckduckgo_search(np) is entered
ResolveDdg ==
    /\ entry = "find_websites" /\ pc = "resolve" /\ n < Len(NPs_names)
    /\ args.search_engine = "ddg"
    /\ out' = Append(out, Progress)
    /\ pc' = "ddg"
    /\ attempt' = 0
    /\ sleeps' = <<>>
    /\ tries' = <<>>
    /\ UNCHANGED <<entry, err, args, NPs_names, n, NPs_links, ret, answers>>
    /\ UNCHANGED mainVars

\* l.98-102: an attempt whose search gives a result; the call returns its href
DdgReturn ==
    /\ entry = "find_websites" /\ pc = "ddg"
    /\ \E results \in [1..1 -> [href : Urls]] :
        /\ tries' = Append(tries, "ok")
        /\ NPs_links' = Put(NPs_links, np, [kind |-> "str", str |-> results[1].href])
        /\ answers' = Append(answers, results)
    /\ n' = n + 1
    /\ pc' = "resolve"
    /\ UNCHANGED <<entry, err, out, args, NPs_names, ret, attempt, sleeps>>
    /\ UNCHANGED mainVars

\* l.98-102: an attempt whose search gives an empty list: results[0] raises
DdgNoResults ==
    /\ entry = "find_websites" /\ pc = "ddg"
    /\ tries' = Append(tries, "IndexError")
    /\ Raise(Exception("IndexError", ""))
    /\ UNCHANGED <<entry, out, args, NPs_names, n, NPs_links, ret, attempt, sleeps, answers>>
    /\ UNCHANGED mainVars

\* l.98-110: an attempt that raises DuckDuckGoSearchException
DdgException ==
    /\ entry = "find_websites" /\ pc = "ddg"
    /\ \E msg \in DdgMessages :
        LET r == OnSearchException(msg, attempt) IN
        /\ tries' = Append(tries, msg)
        /\ out' = out \o r[1]
        /\ sleeps' = sleeps \o r[2]
        /\ attempt' = r[3]
        /\ IF r[4] = NoError THEN UNCHANGED <<pc, err>> ELSE Raise(r[4])
    /\ UNCHANGED <<entry, args, NPs_names, n, NPs_links, ret, answers>>
    /\ UNCHANGED mainVars

\* l.170-173
ReturnFind ==
    /\ entry = "find_websites" /\ pc = "resolve" /\ n = Len(NPs_names)
    /\ out' = IF args.verbose THEN Append(out, [msg |-> "links done"]) ELSE out
    /\ ret' = [kind |-> "tuple", names |-> NPs_names, links |-> NPs_links]
    /\ pc' = "returned"
    /\ UNCHANGED <<entry, err, args, NPs_names, n, NPs_links, attempt, sleeps, tries, answers>>
    /\ UNCHANGED mainVars

-----------------------------------------------------------------------------
(* the batch path: __main__ l.289-296, main l.263-287 *)

\* the directory that holds links.pkl; it is also the default of --path (l.247)
DbDir == <<"..", "/">>

OutDir == <<"out", "/">>

SourceUrl == <<"http:", "/", "/", "src.org", "/", "list">>

\* links a cache entry may hold; "/" is always a token of its own
CachedLinks ==
    { <<>>,
      <<"team">>,
      <<"http:", "/", "/", "example.org">>,
      <<"http:", "/", "/", "example.org", "/">>,
      <<"http:", "/", "/", "example.org", "/", "team">> }

\* the keys of the cache, in insertion order
OrgNames == <<"A", "B", "C", "D">>

\* the caches links.pkl may hold: dicts name -> link of at most MaxOrgs entries
Caches ==
    UNION { { [i \in 1..k |-> <<OrgNames[i], ls[i]>>] : ls \in [1..k -> CachedLinks] }
            : k \in 0..MaxOrgs }

\* a file system path with repeated separators collapsed
RECURSIVE Normalize(_)
Normalize(p) ==
    IF Len(p) < 2 THEN p
    ELSE IF p[1] = "/" /\ p[2] = "/" THEN Normalize(Tail(p))
    ELSE <<p[1]>> \o Normalize(Tail(p))

\* open(f'{dictionary_name}.pkl', 'rb') of l.39
PickleFile(dictionary_name) == dictionary_name \o <<".pkl">>

FileExists(file) == Normalize(file) = Normalize(PickleFile(DbDir \o <<"/", "links">>))

\* l.292: main(args.n_associations, args.limit, args.source_link, args.verbose)
\* bound to the parameters (n_associations, limit, path, verbose) of l.263
MainCall ==
    [n_associations |-> args.n_associations, limit |-> args.limit,
     path |-> args.source_link, verbose |-> args.verbose]

\* l.278: list(dbd.keys())[:n_associations], for n_associations >= 0
FirstKeys(dbd, k) ==
    LET keys == Keys(dbd) IN SubSeq(keys, 1, IF k < Len(keys) THEN k ELSE Len(keys))

\* l.279: f'{dbd[np]}/about'
AboutLink(link) == link \o <<"/", "about">>

InitMain ==
    /\ entry = "main"
    /\ pc = "start"
    /\ err = NoError
    /\ out = <<>>
    /\ args \in [n_associations : 0..MaxOrgs, limit : 0..MaxOrgs,
                 source_link : {DbDir, SourceUrl}, path : {DbDir, OutDir},
                 verbose : BOOLEAN]
    /\ pkl \in Caches
    /\ NPs_names = <<>>
    /\ n = 0
    /\ NPs_links = <<>>
    /\ ret = None
    /\ attempt = 0
    /\ sleeps = <<>>
    /\ tries = <<>>
    /\ answers = <<>>
    /\ opened = None
    /\ links = <<>>
    /\ NPs_dict = <<>>
    /\ runs = <<>>
    /\ db = None
    /\ csv = None

\* l.291-292, l.276-280: parse the arguments, call main, load the cache, build the
\* lists and enter get_np_info
Load ==
    /\ entry = "main" /\ pc = "start"
    /\ LET file == PickleFile(MainCall.path \o <<"/", "links">>) IN
        /\ opened' = file
        /\ IF FileExists(file)
           THEN /\ NPs_names' = FirstKeys(pkl, MainCall.n_associations)
                /\ links' = [i \in 1..Len(NPs_names') |-> AboutLink(Get(pkl, NPs_names'[i]))]
                /\ pc' = "get_np_info"
                /\ UNCHANGED err
           ELSE /\ Raise(Exception("FileNotFoundError", ""))
                /\ UNCHANGED <<NPs_names, links>>
    /\ UNCHANGED <<entry, out, args, n, pkl, NPs_dict, runs, db, csv>>
    /\ UNCHANGED findVars

-----------------------------------------------------------------------------
(* get_np_info, l.175-211 *)

\* the position of the last "/" of s, 0 when there is none
LastSlash(s) ==
    IF \E i \in 1..Len(s) : s[i] = "/"
    THEN CHOOSE i \in 1..Len(s) : s[i] = "/" /\ \A j \in (i + 1)..Len(s) : s[j] # "/"
    ELSE 0

FirstSlash(s) ==
    IF \E i \in 1..Len(s) : s[i] = "/"
    THEN CHOOSE i \in 1..Len(s) : s[i] = "/" /\ \A j \in 1..(i - 1) : s[j] # "/"
    ELSE 0

\* s.split('/', 1)[0]: cut at the first separator instead of the last
split_first(s) == IF FirstSlash(s) = 0 THEN s ELSE SubSeq(s, 1, FirstSlash(s) - 1)

\* l.204: s.rsplit('/', 1)[0]
rsplit_first(s) == IF LastSlash(s) = 0 THEN s ELSE SubSeq(s, 1, LastSlash(s) - 1)

\* what the extractor may print for the fixed prompt of l.189-192
PromptShaped ==
    << <<"name", "X">>, <<"location", "Y">>, <<"type", "health">>,
       <<"description", "d">>, <<"size", "s">>,
       <<"contacts", <<"a@x.org", "555-1234">> >>, <<"linkedin", "li">> >>

TableShaped ==
    << <<"name", "X">>, <<"location", "Y">>, <<"description", "d">>, <<"size", "s">>,
       <<"contacts", <<"a@x.org">> >>, <<"social_media", "sm">>,
       <<"link", <<"http:", "/", "/", "echo.org", "/", "x">> >> >>

NoContacts == << <<"name", "X">>, <<"location", "Y">> >>

InfoStdout ==
    {Empty("scraper failed"), Text, JsonList,
     Json(PromptShaped), Json(TableShaped), Json(NoContacts)}

\* l.194 as range(limit + 1): one iteration too many
InRangeInclusive(i, limit) == i <= limit

\* l.194: range(limit) still holds the index i
InRange(i, limit) == i < limit

\* l.202-204 without the assignment of l.203
StoreResultKeepName(d, name, source_link, parsed) ==
    Put(d, name, Put(parsed, "link", rsplit_first(source_link)))

\* l.202-204: the record stored for name
StoreResult(d, name, source_link, parsed) ==
    Put(d, name, Put(Put(parsed, "name", name), "link", rsplit_first(source_link)))

\* l.206 printing the loop variable instead of n+1
InfoDiagnosticZeroBased(i, limit, name, stderr) ==
    [msg |-> "failed", index |-> i, total |-> limit, name |-> name, stderr |-> stderr]

\* l.206: print(f"{n+1}/{limit} | {name}\n{result.stderr}")
InfoDiagnostic(i, limit, name, stderr) ==
    [msg |-> "failed", index |-> i + 1, total |-> limit, name |-> name, stderr |-> stderr]

\* l.209
InfoDone(i, limit, name) == [msg |-> "done with", index |-> i + 1, total |-> limit, name |-> name]

\* l.194-209: one iteration of the loop
GetInfo ==
    /\ entry = "main" /\ pc = "get_np_info"
    /\ InRange(n, MainCall.limit)
    /\ IF n >= Len(links)
       THEN /\ Raise(Exception("IndexError", ""))
            /\ UNCHANGED <<out, n, NPs_dict, runs>>
       ELSE \E result \in InfoStdout :
            LET source_link == links[n + 1]
                name        == NPs_names[n + 1]
                verbose     == IF MainCall.verbose
                               THEN <<InfoDone(n, MainCall.limit, name)>> ELSE <<>>
            IN  /\ runs' = Append(runs, result)
                /\ IF StdoutTruthy(result)
                   THEN IF result.kind # "json"
                        THEN /\ Raise(Exception("JSONDecodeError", ""))
                             /\ UNCHANGED <<out, n, NPs_dict>>
                        ELSE IF ~result.isdict
                        THEN /\ Raise(Exception("TypeError", ""))
                             /\ NPs_dict' = Put(NPs_dict, name, result.value)
                             /\ UNCHANGED <<out, n>>
                        ELSE /\ NPs_dict' = StoreResult(NPs_dict, name, source_link, result.value)
                             /\ out' = out \o verbose
                             /\ n' = n + 1
                             /\ UNCHANGED <<pc, err>>
                   ELSE /\ out' = Append(out, InfoDiagnostic(n, MainCall.limit, name, result.stderr))
                                    \o verbose
                        /\ n' = n + 1
                        /\ UNCHANGED <<pc, err, NPs_dict>>
    /\ UNCHANGED <<entry, args, NPs_names, pkl, opened, links, db, csv>>
    /\ UNCHANGED findVars

-----------------------------------------------------------------------------
(* create_database, l.213-234 *)

\* l.223-224
FixedColumns ==
    <<"name", "location", "description", "size", "contacts", "social_media", "link">>

RECURSIVE PyItems(_)
PyItems(l) ==
    IF Len(l) = 0 THEN <<>>
    ELSE <<"'", l[1], "'">> \o (IF Len(l) = 1 THEN <<>> ELSE <<", ">> \o PyItems(Tail(l)))

\* str() of a list of strings: "['a', 'b']", one token per bracket, quote and separator
PyStr(l) == <<"[">> \o PyItems(l) \o <<"]">>

\* l.227: str(contacts)[1:-1]
FlattenContacts(contacts) == LET t == PyStr(contacts) IN SubSeq(t, 2, Len(t) - 1)

\* columns of an outer join: those of the left table, then the new ones in order
RECURSIVE JoinColumns(_, _)
JoinColumns(cols, more) ==
    IF Len(more) = 0 THEN cols
    ELSE JoinColumns(IF more[1] \in Range(cols) THEN cols ELSE Append(cols, more[1]),
                     Tail(more))

\* l.228: pd.DataFrame(record, index=[0]), a table of one row
DataFrame(record) == [columns |-> Keys(record), rows |-> <<record>>]

\* l.229: pd.concat([db, df], ignore_index=True)
concat(table, df) ==
    [columns |-> JoinColumns(table.columns, df.columns), rows |-> table.rows \o df.rows]

\* l.226-229: the loop over the keys, from the i-th on; the dict is changed in place
RECURSIVE Assemble(_, _, _)
Assemble(d, i, table) ==
    IF i > Len(d) THEN [dict |-> d, db |-> table, err |-> NoError]
    ELSE LET key == d[i][1]
             rec == d[i][2]
         IN  IF ~Has(rec, "contacts")
             THEN [dict |-> d, db |-> table, err |-> Exception("KeyError", "contacts")]
             ELSE LET flat == Put(rec, "contacts", FlattenContacts(Get(rec, "contacts")))
                  IN  Assemble(Put(d, key, flat), i + 1, concat(table, DataFrame(flat)))

\* l.211, l.281-287: get_np_info returns, create_database builds the table, main returns
CreateDatabase ==
    /\ entry = "main" /\ pc = "get_np_info"
    /\ ~InRange(n, MainCall.limit)
    /\ LET r == Assemble(NPs_dict, 1, [columns |-> FixedColumns, rows |-> <<>>]) IN
        /\ NPs_dict' = r.dict
        /\ IF r.err = NoError
           THEN /\ db' = r.db
                /\ pc' = "created"
                /\ out' = IF MainCall.verbose THEN Append(out, [msg |-> "Time taken"]) ELSE out
                /\ UNCHANGED err
           ELSE /\ Raise(r.err)
                /\ UNCHANGED <<db, out>>
    /\ UNCHANGED <<entry, args, NPs_names, n, pkl, opened, links, runs, csv>>
    /\ UNCHANGED findVars

\* l.293-296 with save_db l.252-260
SaveDb ==
    /\ entry = "main" /\ pc = "created"
    /\ csv' = [file |-> args.path \o <<"associations_", "dt", ".csv">>,
               header |-> db.columns, rows |-> db.rows]
    /\ out' = IF args.verbose
              THEN out \o <<[msg |-> "Database saved", path |-> args.path], [msg |-> "db"]>>
              ELSE out
    /\ pc' = "done"
    /\ UNCHANGED <<entry, err, args, NPs_names, n, pkl, opened, links, NPs_dict, runs, db>>
    /\ UNCHANGED findVars

-----------------------------------------------------------------------------

Init == InitFind \/ InitMain

Next ==
    \/ Discover
    \/ ResolveGoogle
    \/ ResolveGemini
    \/ ResolveNothing
    \/ ResolveDdg
    \/ DdgReturn
    \/ DdgNoResults
    \/ DdgException
    \/ ReturnFind
    \/ Load
    \/ GetInfo
    \/ CreateDatabase
    \/ SaveDb

Spec == Init /\ [][Next]_vars

-----------------------------------------------------------------------------
(* Properties of duckduckgo_search *)

PersistentRateLimit == tries # <<>> /\ \A i \in 1..Len(tries) : tries[i] = "Ratelimit"

\* C1: when every attempt of a call fails with a rate-limit error, the delays slept
\* are 5 * 2^k for k = 0..8, exactly ten attempts are made and the call ends by
\* raising; a call never ends without either a URL or an error.
C1_BackoffThenRaise ==
    entry = "find_websites" =>
        /\ (PersistentRateLimit /\ pc # "ddg") =>
              /\ Len(tries) = 10
              /\ sleeps = <<5, 10, 20, 40, 80, 160, 320, 640, 1280>>
              /\ pc = "raised"
              /\ err.type = "DuckDuckGoSearchException"
        /\ (PersistentRateLimit /\ pc = "ddg") =>
              /\ Len(tries) < 10
              /\ Len(sleeps) = Len(tries)
              /\ \A k \in 1..Len(sleeps) : sleeps[k] = 5 * 2^(k - 1)
        /\ (tries # <<>> /\ pc # "ddg") =>
              \/ pc = "raised" /\ err # NoError
              \/ /\ tries[Len(tries)] = "ok"
                 /\ Has(NPs_links, NPs_names[n])
                 /\ Get(NPs_links, NPs_names[n]).kind = "str"
                 /\ Get(NPs_links, NPs_names[n]).str \in Urls

C1_Witness == pc = "raised" /\ PersistentRateLimit /\ Len(tries) = 10

\* C9 as stated: under persistent rate limiting ten delays are slept, 5, 10, ..., 2560
C9_TenDelaysTo2560 ==
    (entry = "find_websites" /\ PersistentRateLimit /\ pc = "raised") =>
        sleeps = <<5, 10, 20, 40, 80, 160, 320, 640, 1280, 2560>>

\* the last k entries of s
Last(s, k) == SubSeq(s, Len(s) - k + 1, Len(s))

\* C9 amended: a call makes at most 9 retries (10 attempts); the delay before the
\* retry that follows attempt a (a = 0..8) is 5 * 2^a, so the delays are at most
\* 5, 10, ..., 1280, one per rate-limit failure that is retried, and a notice with
\* that delay is printed for each retry.
C9_NineDelaysTo1280 ==
    (entry = "find_websites" /\ pc \in {"ddg", "raised", "resolve"}) =>
        /\ Len(sleeps) <= 9
        /\ Len(sleeps) = attempt
        /\ \A k \in 1..Len(sleeps) :
              /\ sleeps[k] = 5 * 2^(k - 1)
              /\ sleeps[k] <= 1280
              /\ tries[k] = "Ratelimit"
        /\ Len(out) >= Len(sleeps)
        /\ Last(out, Len(sleeps)) =
              [k \in 1..Len(sleeps) |-> [msg |-> "Rate limit hit", delay |-> 5 * 2^(k - 1)]]

C9_Witness == pc = "raised" /\ Len(sleeps) = 9 /\ sleeps[9] = 1280

-----------------------------------------------------------------------------
(* Properties of find_websites *)

\* the last iteration that resolved the name of iteration i
LastOf(i) ==
    CHOOSE j \in i..Len(NPs_names) :
        /\ NPs_names[j] = NPs_names[i]
        /\ \A m \in (j + 1)..Len(NPs_names) : NPs_names[m] # NPs_names[i]

\* the URL the backend's contract resolve(name) -> URL takes from its answer
ContractUrl(engine, answer) ==
    IF engine = "google" THEN get_links(answer)
    ELSE IF engine = "ddg" THEN [kind |-> "str", str |-> answer[1].href]
    ELSE [kind |-> "str", str |-> Get(answer, "link")]

\* C10: when find_websites returns names and links, for every value of search_engine
\* the mapping has an entry for every discovered name, and the entry is the URL the
\* backend resolved for it (for google, the first result's link field).
C10_EveryNameResolvedToUrl ==
    (entry = "find_websites" /\ pc = "returned" /\ ret.kind = "tuple") =>
        \A i \in 1..Len(ret.names) :
            /\ Has(ret.links, ret.names[i])
            /\ Get(ret.links, ret.names[i]).kind = "str"
            /\ Get(ret.links, ret.names[i]) = ContractUrl(args.search_engine, answers[LastOf(i)])

-----------------------------------------------------------------------------
(* Properties of the batch path *)

Finished == entry = "main" /\ pc \in {"created", "done"}

\* C2: the table main produces has at most limit rows, and no more rows than
\* processed organizations whose extraction gave non-empty stdout.
C2_RowsBounded ==
    Finished =>
        /\ Len(db.rows) <= args.limit
        /\ Len(db.rows) <= Cardinality({i \in 1..Len(runs) : runs[i].kind # "empty"})
        /\ pc = "done" => Len(csv.rows) = Len(db.rows)

C2_Witness ==
    /\ Finished
    /\ args.limit < args.n_associations
    /\ Len(db.rows) = args.limit
    /\ args.limit > 0

\* an extraction result the pipeline can assemble: a JSON object with contacts
WellFormed(r) == r.kind = "json" /\ r.isdict /\ Has(r.value, "contacts")

OnlyFailure(k) ==
    /\ k \in 1..Len(runs)
    /\ runs[k].kind = "empty"
    /\ \A j \in 1..Len(runs) : j # k => WellFormed(runs[j])

Diagnostic(k) ==
    [msg |-> "failed", index |-> k, total |-> args.limit, name |-> NPs_names[k],
     stderr |-> runs[k].stderr]

\* C3: if the extractor gives empty stdout for exactly one organization k of the
\* first limit and well-formed results for the others, a diagnostic with k's index,
\* name and stderr is printed, the run does not stop, every organization after k is
\* processed, and the table has exactly limit - 1 rows, none of them for k.
C3_OneFailureOmitted ==
    \A k \in 1..Len(runs) :
        (entry = "main" /\ args.limit <= Len(NPs_names) /\ OnlyFailure(k)) =>
            /\ Diagnostic(k) \in Range(out)
            /\ pc # "raised"
            /\ Finished =>
                  /\ Len(runs) = args.limit
                  /\ Len(db.rows) = args.limit - 1
                  /\ \A r \in 1..Len(db.rows) : Get(db.rows[r], "name") # NPs_names[k]

C3_Witness ==
    /\ Finished
    /\ Len(runs) = 2
    /\ OnlyFailure(1)

\* C4 as stated: every extraction failure, empty stdout or stdout that is not
\* well-formed JSON, is logged and only omits that organization; it never ends the run.
C4_EveryFailureSkipped ==
    \A i \in 1..Len(runs) :
        (entry = "main" /\ (runs[i].kind \in {"empty", "text"} \/ ~runs[i].isdict)) =>
            /\ Diagnostic(i) \in Range(out)
            /\ ~(i = Len(runs) /\ pc = "raised" /\ err.type \in {"JSONDecodeError", "TypeError"})

\* C4 amended: an extraction with empty stdout is logged with index, name and stderr,
\* leaves no record for the organization and lets the loop go on to the next index;
\* stdout that is not JSON is not handled: json.loads raises and the run ends there.
C4_EmptySkippedMalformedAborts ==
    \A i \in 1..Len(runs) :
        entry = "main" =>
            /\ runs[i].kind = "empty" =>
                  /\ Diagnostic(i) \in Range(out)
                  /\ ~Has(NPs_dict, NPs_names[i])
                  /\ n >= i
                  /\ err.type \notin {"JSONDecodeError", "TypeError"} \/ i < Len(runs)
            /\ runs[i].kind = "text" =>
                  /\ i = Len(runs)
                  /\ pc = "raised"
                  /\ err.type = "JSONDecodeError"
                  /\ ~Has(NPs_dict, NPs_names[i])

C4_Witness ==
    /\ pc = "raised"
    /\ Len(runs) = 2
    /\ runs[1].kind = "empty"
    /\ runs[2].kind = "text"

Succeeded(i) == i \in 1..Len(runs) /\ runs[i].kind = "json" /\ runs[i].isdict

\* C5: the record stored for an organization whose extraction succeeded has the
\* caller's name, and as link the caller's source link up to its last "/", whatever
\* name and link the extractor's JSON held.
C5_AuthoritativeNameAndLink ==
    \A i \in 1..Len(runs) :
        (entry = "main" /\ Succeeded(i)) =>
            /\ Has(NPs_dict, NPs_names[i])
            /\ LET rec == Get(NPs_dict, NPs_names[i]) IN
                /\ Get(rec, "name") = NPs_names[i]
                /\ \E p \in 1..Len(links[i]) :
                      /\ links[i][p] = "/"
                      /\ \A q \in (p + 1)..Len(links[i]) : links[i][q] # "/"
                      /\ Get(rec, "link") = SubSeq(links[i], 1, p - 1)

C5_Witness ==
    /\ entry = "main"
    /\ Len(runs) >= 1
    /\ runs[1] = Json(TableShaped)
    /\ Get(Get(NPs_dict, NPs_names[1]), "name") = "A"

\* C6: for every cached link L the source link handed to the extractor is L + "/about"
\* and the link stored in the record is L again.
C6_LinkRoundTrip ==
    entry = "main" =>
        \A i \in 1..Len(links) :
            /\ links[i] = pkl[i][2] \o <<"/", "about">>
            /\ Succeeded(i) => Get(Get(NPs_dict, NPs_names[i]), "link") = pkl[i][2]

C6_Witness ==
    /\ entry = "main"
    /\ Succeeded(1)
    /\ pkl[1][2] = <<"http:", "/", "/", "example.org", "/">>
    /\ Get(Get(NPs_dict, NPs_names[1]), "link") = <<"http:", "/", "/", "example.org", "/">>

\* C7: the table and the CSV header have exactly the columns name, location,
\* description, size, contacts, social_media, link, in that order.
C7_FixedColumns ==
    Finished =>
        /\ db.columns =
              <<"name", "location", "description", "size", "contacts", "social_media", "link">>
        /\ pc = "done" => csv.header = db.columns

\* C8: the cache is loaded from the location the configured path gives, whatever
\* the source link argument is.
C8_CacheFromConfiguredPath ==
    (entry = "main" /\ pc # "start") => opened = args.path \o <<"/", "links", ".pkl">>

====
